---- MODULE Spec2Model ----
(***************************************************************************)
(* Model of the GraphQL file-sharing chat: the backend of                  *)
(* src/backend/index.js (in-memory message store, postMessage mutation     *)
(* with upload to disk, Query.messages, Subscription.messageAdded over a   *)
(* PubSub) and the client view state of src/sender/src/App.js and          *)
(* src/receiver/src/App.js (poll + subscription merged by id).             *)
(*                                                                         *)
(* An optional value (GraphQL null) is the empty sequence Null, a present  *)
(* value v is the one-element sequence Some(v).                            *)
(***************************************************************************)
EXTENDS Integers, Sequences, FiniteSets, TLC

\* ---------------------------------------------------------------- bounds
\* number of postMessage invocations in a run
MaxCalls == 2

Calls == 1..MaxCalls
\* the two front-ends of the repository, src/sender and src/receiver
Clients == {"sender", "receiver"}

\* ---------------------------------------------------------------- inputs
Null == <<>>
Some(v) == <<v>>

Senders == {"Alice", "Bob"}
Contents == {Null, Some("hi")}
Filenames == {"a.txt", "b.txt"}
\* an upload as graphql-upload resolves it: createReadStream is the byte stream
\* (a chunk is one byte; 0 is the byte a hole reads as)
Upload(filename, bytes) ==
    [filename |-> filename, mimetype |-> "text/plain", encoding |-> "7bit",
     createReadStream |-> bytes]
Uploads == {Upload("a.txt", <<1, 1>>), Upload("a.txt", <<2>>), Upload("b.txt", <<2>>)}
Files == {Null} \cup {Some(u) : u \in Uploads}
\* the arguments of postMessage: any sender and content without a file, and
\* with a file one sender and the content: null that handleUpload sends
\* (App.js line 109)
PostArgs ==
    {a \in [sender : Senders, content : Contents, file : Files] :
        a.file # Null => a.sender = "Alice" /\ a.content = Null}

NoArgs == [sender |-> "", content |-> Null, file |-> Null]

VARIABLES
    messages,    \* backend: the in-memory message store (a sequence of records)
    disk,        \* backend: uploads directory, filename -> Null or Some(bytes)
    uuidCount,   \* number of identifiers uuidv4 has generated
    pc,          \* per postMessage call: where the async resolver stands
    args,        \* per call: the arguments { sender, content, file }
    pos,         \* per call: bytes the write stream has written (its file offset)
    readErr,     \* per call: the upload read stream has emitted 'error'
    writeErr,    \* per call: the write stream has emitted 'error'
    result,      \* per call: Null, or Some(record) returned to the caller
    subscribed,  \* per client: its messageAdded async iterator is registered
    subAt,       \* per client: length of the store when it subscribed (history)
    inbox,       \* per client: published records not yet handled by onData
    got,         \* per client: records onData has handled (history)
    view,        \* per client: React state `messages`
    data,        \* per client: useQuery `data` (Null before the first result)
    poll,        \* per client: Null, or Some(response) of the poll in flight
    fileState,   \* per client: React state `file` (Null or Some(selected file))
    senderState, \* per client: React state `sender` (the name typed)
    uploaded,    \* per client: React state `uploaded` (Null or Some(file descriptor))
    owner,       \* per call: the client whose handleUpload awaits it, or "api"
    settled      \* per call: the awaiting handleUpload has resumed

vars == <<messages, disk, uuidCount, pc, args, pos, readErr, writeErr, result,
          subscribed, subAt, inbox, got, view, data, poll,
          fileState, senderState, uploaded, owner, settled>>

serverVars ==
    <<messages, disk, uuidCount, pc, args, pos, readErr, writeErr, result>>
pubVars == <<subscribed, subAt, inbox, got>>
clientVars == <<view, data, poll>>
formVars == <<fileState, senderState, uploaded, owner, settled>>

Init ==
    /\ messages = <<>>
    /\ disk = [f \in Filenames |-> Null]
    /\ uuidCount = 0
    /\ pc = [c \in Calls |-> "idle"]
    /\ args = [c \in Calls |-> NoArgs]
    /\ pos = [c \in Calls |-> 0]
    /\ readErr = [c \in Calls |-> FALSE]
    /\ writeErr = [c \in Calls |-> FALSE]
    /\ result = [c \in Calls |-> Null]
    /\ subscribed = [k \in Clients |-> FALSE]
    /\ subAt = [k \in Clients |-> 0]
    /\ inbox = [k \in Clients |-> <<>>]
    /\ got = [k \in Clients |-> <<>>]
    /\ view = [k \in Clients |-> <<>>]
    /\ data = [k \in Clients |-> Null]
    /\ poll = [k \in Clients |-> Null]
    /\ fileState = [k \in Clients |-> Null]
    /\ senderState = [k \in Clients |-> ""]
    /\ uploaded = [k \in Clients |-> Null]
    /\ owner = [c \in Calls |-> "api"]
    /\ settled = [c \in Calls |-> FALSE]

\* ------------------------------------------------------- backend helpers
\* uuidv4(): the n-th identifier generated; a one-symbol string standing for
\* the 36-character UUID whose random part is n (distinct calls, distinct ids)
uuidv4(n) == <<n>>

\* `http://localhost:4000/uploads/${filename}`
UrlOf(filename) == "http://localhost:4000/uploads/" \o filename

\* path.join(uploadsDir, filename): the key of the file in the uploads directory
filepath(filename) == filename

\* fileData of lines 100-105
FileData(upload) ==
    [filename |-> upload.filename,
     mimetype |-> upload.mimetype,
     encoding |-> upload.encoding,
     url |-> UrlOf(upload.filename)]

\* mutant of Message: the record is identified by its sender, not by a uuid
MessageIdFromSender(id, sender, content, fileData) ==
    [id |-> <<sender>>, sender |-> sender, content |-> content, file |-> fileData]

\* mutant of Message: the sender is stored as the content
MessageContentFromSender(id, sender, content, fileData) ==
    [id |-> id, sender |-> sender, content |-> Some(sender), file |-> fileData]

\* the message object of lines 108-113
Message(id, sender, content, fileData) ==
    [id |-> id, sender |-> sender, content |-> content, file |-> fileData]

\* mutant of Publish: the record is put at the front of each iterator's queue
PublishFront(boxes, message) ==
    [k \in Clients |->
        IF subscribed[k] THEN <<message>> \o boxes[k] ELSE boxes[k]]

\* pubsub.publish(MESSAGE_ADDED, ...): every registered iterator queues it
Publish(boxes, message) ==
    [k \in Clients |->
        IF subscribed[k] THEN Append(boxes[k], message) ELSE boxes[k]]

\* mutant of Complete: messages.unshift(message) in place of messages.push
CompleteUnshift(c, a, fileData) ==
    LET message == Message(uuidv4(uuidCount + 1), a.sender, a.content, fileData)
    IN /\ uuidCount' = uuidCount + 1
       /\ messages' = <<message>> \o messages
       /\ inbox' = Publish(inbox, message)
       /\ result' = [result EXCEPT ![c] = Some(message)]
       /\ pc' = [pc EXCEPT ![c] = "returned"]

\* mutant of Complete: the record is written at the slot the call counted
\* for itself (messages[c - 1] = message), not pushed at the current end
CompleteStaleSlot(c, a, fileData) ==
    LET message == Message(uuidv4(uuidCount + 1), a.sender, a.content, fileData)
        keep == IF c - 1 < Len(messages) THEN c - 1 ELSE Len(messages)
    IN /\ uuidCount' = uuidCount + 1
       /\ messages' = Append(SubSeq(messages, 1, keep), message)
       /\ inbox' = Publish(inbox, message)
       /\ result' = [result EXCEPT ![c] = Some(message)]
       /\ pc' = [pc EXCEPT ![c] = "returned"]

\* lines 108-120 for call c with arguments a: build the record, push it to the
\* store, publish it, return it
Complete(c, a, fileData) ==
    LET message == Message(uuidv4(uuidCount + 1), a.sender, a.content, fileData)
    IN /\ uuidCount' = uuidCount + 1
       /\ messages' = Append(messages, message)
       /\ inbox' = Publish(inbox, message)
       /\ result' = [result EXCEPT ![c] = Some(message)]
       /\ pc' = [pc EXCEPT ![c] = "returned"]

\* a write of one byte at offset p of a file holding bytes s (holes read 0)
WriteAt(s, p, b) ==
    [i \in 1..(IF Len(s) > p + 1 THEN Len(s) ELSE p + 1) |->
        IF i = p + 1 THEN b ELSE IF i <= Len(s) THEN s[i] ELSE 0]

\* express.static(uploadsDir) on GET url: the bytes of the file, Null for 404
Serve(url) ==
    IF \E f \in Filenames : UrlOf(f) = url
    THEN disk[filepath(CHOOSE f \in Filenames : UrlOf(f) = url)]
    ELSE Null

\* --------------------------------------------------- postMessage resolver
\* the resolver is called: lines 83-87 up to `await file`, or, with no file
\* (line 86 false), lines 84-120 in one go
Invoke(c, sender, content, file) ==
    LET a == [sender |-> sender, content |-> content, file |-> file]
    IN /\ pc[c] = "idle"
       /\ \A b \in Calls : b < c => pc[b] # "idle"
       /\ args' = [args EXCEPT ![c] = a]
       /\ IF file # Null
          THEN /\ pc' = [pc EXCEPT ![c] = "awaitUpload"]
               /\ UNCHANGED <<messages, uuidCount, result, inbox>>
          ELSE Complete(c, a, Null)
       /\ UNCHANGED <<disk, pos, readErr, writeErr, subscribed, subAt, got>>
       /\ UNCHANGED clientVars

\* postMessage called by a GraphQL client other than the two front-ends
PostMessage(c, a) ==
    /\ Invoke(c, a.sender, a.content, a.file)
    /\ UNCHANGED formVars

\* `await file` resolves: lines 88-95, createReadStream, createWriteStream and
\* pipe; the resolver then waits for the promise of line 93
UploadResolved(c) ==
    /\ pc[c] = "awaitUpload"
    /\ pc' = [pc EXCEPT ![c] = "opening"]
    /\ UNCHANGED <<messages, disk, uuidCount, args, pos, readErr, writeErr, result>>
    /\ UNCHANGED pubVars
    /\ UNCHANGED clientVars
    /\ UNCHANGED formVars

\* `await file` rejects (the multipart request is invalid): the resolver throws
UploadRejected(c) ==
    /\ pc[c] = "awaitUpload"
    /\ pc' = [pc EXCEPT ![c] = "error"]
    /\ UNCHANGED <<messages, disk, uuidCount, args, pos, readErr, writeErr, result>>
    /\ UNCHANGED pubVars
    /\ UNCHANGED clientVars
    /\ UNCHANGED formVars

\* fs.createWriteStream(filepath) opens the file with flag 'w': it is created
\* or truncated
OpenFile(c) ==
    /\ pc[c] = "opening"
    /\ disk' = [disk EXCEPT ![filepath(args[c].file[1].filename)] = Some(<<>>)]
    /\ pc' = [pc EXCEPT ![c] = "piping"]
    /\ UNCHANGED <<messages, uuidCount, args, pos, readErr, writeErr, result>>
    /\ UNCHANGED pubVars
    /\ UNCHANGED clientVars
    /\ UNCHANGED formVars

\* stream.pipe(writeStream) moves one chunk: the write stream writes it at its
\* own file offset
WriteChunk(c) ==
    LET upload == args[c].file[1]
        f == filepath(upload.filename)
        old == IF disk[f] = Null THEN <<>> ELSE disk[f][1]
    IN /\ pc[c] = "piping"
       /\ ~readErr[c]
       /\ pos[c] < Len(upload.createReadStream)
       /\ disk' = [disk EXCEPT ![f] =
                      Some(WriteAt(old, pos[c], upload.createReadStream[pos[c] + 1]))]
       /\ pos' = [pos EXCEPT ![c] = pos[c] + 1]
       /\ UNCHANGED <<messages, uuidCount, pc, args, readErr, writeErr, result>>
       /\ UNCHANGED pubVars
       /\ UNCHANGED clientVars
       /\ UNCHANGED formVars

\* mutant of WriteError: the failure is swallowed and the record is stored and
\* published without a file
WriteErrorSwallowed(c) ==
    /\ \/ pc[c] = "opening"
       \/ /\ pc[c] = "piping"
          /\ ~readErr[c]
          /\ pos[c] < Len(args[c].file[1].createReadStream)
    /\ writeErr' = [writeErr EXCEPT ![c] = TRUE]
    /\ Complete(c, args[c], Null)
    /\ UNCHANGED <<disk, args, pos, readErr, subscribed, subAt, got>>
    /\ UNCHANGED clientVars
    /\ UNCHANGED formVars

\* writeStream.on('error', reject), line 97: the open or a write fails, the
\* promise rejects and the resolver throws; lines 100-120 do not run
WriteError(c) ==
    /\ \/ pc[c] = "opening"
       \/ /\ pc[c] = "piping"
          /\ ~readErr[c]
          /\ pos[c] < Len(args[c].file[1].createReadStream)
    /\ writeErr' = [writeErr EXCEPT ![c] = TRUE]
    /\ pc' = [pc EXCEPT ![c] = "error"]
    /\ UNCHANGED <<messages, disk, uuidCount, args, pos, readErr, result>>
    /\ UNCHANGED pubVars
    /\ UNCHANGED clientVars
    /\ UNCHANGED formVars

\* the upload read stream emits 'error' before its end (the client aborts the
\* request): pipe() unpipes and never ends the write stream, and the promise
\* of line 93 has no handler for it (only writeStream's events settle it)
ReadError(c) ==
    /\ pc[c] \in {"opening", "piping"}
    /\ ~readErr[c]
    /\ pos[c] < Len(args[c].file[1].createReadStream)
    /\ readErr' = [readErr EXCEPT ![c] = TRUE]
    /\ UNCHANGED <<messages, disk, uuidCount, pc, args, pos, writeErr, result>>
    /\ UNCHANGED pubVars
    /\ UNCHANGED clientVars
    /\ UNCHANGED formVars

\* mutant of Finish: the promise of line 93 is not awaited, lines 100-120 run
\* while the file is still being written
FinishNoAwait(c) ==
    /\ pc[c] = "piping"
    /\ ~readErr[c]
    /\ Complete(c, args[c], Some(FileData(args[c].file[1])))
    /\ UNCHANGED <<disk, args, pos, readErr, writeErr, subscribed, subAt, got>>
    /\ UNCHANGED clientVars
    /\ UNCHANGED formVars

\* writeStream.on('finish', resolve), line 96: the read stream ended and every
\* chunk is written; the resolver resumes with lines 100-120
Finish(c) ==
    /\ pc[c] = "piping"
    /\ ~readErr[c]
    /\ pos[c] = Len(args[c].file[1].createReadStream)
    /\ Complete(c, args[c], Some(FileData(args[c].file[1])))
    /\ UNCHANGED <<disk, args, pos, readErr, writeErr, subscribed, subAt, got>>
    /\ UNCHANGED clientVars
    /\ UNCHANGED formVars

\* ------------------------------------------------------------ Query.messages
\* mutant of QueryMessages: records without content are filtered out
QueryMessagesWithContent ==
    SelectSeq(messages, LAMBDA m : m.content # Null)

\* messages: () => messages
QueryMessages == messages

\* ------------------------------------------------- Subscription.messageAdded
\* mutant of Subscribe: the stored history is replayed to the new subscriber
SubscribeReplay(k) ==
    /\ ~subscribed[k]
    /\ subscribed' = [subscribed EXCEPT ![k] = TRUE]
    /\ subAt' = [subAt EXCEPT ![k] = Len(messages)]
    /\ inbox' = [inbox EXCEPT ![k] = messages]
    /\ UNCHANGED got
    /\ UNCHANGED serverVars
    /\ UNCHANGED clientVars
    /\ UNCHANGED formVars

\* subscribe: () => pubsub.asyncIterator([MESSAGE_ADDED]): an iterator with an
\* empty queue is registered for the client's useSubscription
Subscribe(k) ==
    /\ ~subscribed[k]
    /\ subscribed' = [subscribed EXCEPT ![k] = TRUE]
    /\ subAt' = [subAt EXCEPT ![k] = Len(messages)]
    /\ inbox' = [inbox EXCEPT ![k] = <<>>]
    /\ UNCHANGED got
    /\ UNCHANGED serverVars
    /\ UNCHANGED clientVars
    /\ UNCHANGED formVars

\* --------------------------------------------------------------- front-ends
\* the selection set of GET_MESSAGES, MESSAGE_SUBSCRIPTION and POST_MESSAGE
\* (App.js lines 17-61) applied to a record: the file's encoding is not asked
Selected(m) ==
    [id |-> m.id, sender |-> m.sender, content |-> m.content,
     file |-> IF m.file = Null
              THEN Null
              ELSE Some([filename |-> m.file[1].filename,
                         url |-> m.file[1].url,
                         mimetype |-> m.file[1].mimetype])]

SelectedAll(list) == [i \in 1..Len(list) |-> Selected(list[i])]

\* mutant of OnDataUpdate: the pushed record is appended without the id check
OnDataAlwaysAppend(prev, newMsg) == Append(prev, newMsg)

\* mutant of OnDataUpdate: a new record replaces the list ([newMsg], the
\* spread of prev forgotten)
OnDataReplace(prev, newMsg) ==
    IF \E i \in 1..Len(prev) : prev[i].id = newMsg.id
    THEN prev
    ELSE <<newMsg>>

\* mutant of OnDataUpdate: a new record is put first ([newMsg, ...prev])
OnDataPrepend(prev, newMsg) ==
    IF \E i \in 1..Len(prev) : prev[i].id = newMsg.id
    THEN prev
    ELSE <<newMsg>> \o prev

\* the updater of setMessages in onData (App.js lines 130-133)
OnDataUpdate(prev, newMsg) ==
    IF \E i \in 1..Len(prev) : prev[i].id = newMsg.id
    THEN prev
    ELSE Append(prev, newMsg)

\* useSubscription onData (App.js lines 127-135) for the next pushed record
OnData(k) ==
    /\ inbox[k] # <<>>
    /\ view' = [view EXCEPT ![k] = OnDataUpdate(view[k], Selected(Head(inbox[k])))]
    /\ inbox' = [inbox EXCEPT ![k] = Tail(inbox[k])]
    /\ got' = [got EXCEPT ![k] = Append(got[k], Head(inbox[k]))]
    /\ UNCHANGED <<subscribed, subAt, data, poll>>
    /\ UNCHANGED serverVars
    /\ UNCHANGED formVars

\* useQuery(GET_MESSAGES, pollInterval: 500): the poll timer fires with no poll
\* in flight, the backend runs Query.messages and the response travels back
PollRequest(k) ==
    /\ poll[k] = Null
    /\ poll' = [poll EXCEPT ![k] = Some(SelectedAll(QueryMessages))]
    /\ UNCHANGED <<view, data>>
    /\ UNCHANGED serverVars
    /\ UNCHANGED pubVars
    /\ UNCHANGED formVars

\* mutant of EffectOnData: the poll result is merged into the view, records the
\* view holds and the result lacks are kept
EffectMerge(old, d, prev) ==
    IF Some(d) # old
    THEN d \o SelectSeq(prev, LAMBDA m : \A i \in 1..Len(d) : d[i].id # m.id)
    ELSE prev

\* mutant of EffectOnData: the effect has no dependency ([] for [data]) and
\* runs for the first result only
EffectOnlyFirst(old, d, prev) ==
    IF old = Null THEN d ELSE prev

\* the effect of App.js lines 120-125 on a poll result `d` given that useQuery
\* held `old`: it runs when `data` changed and sets the view to data.messages
EffectOnData(old, d, prev) ==
    IF Some(d) # old THEN d ELSE prev

\* the poll response arrives: useQuery replaces `data` and the effect runs
PollResponse(k) ==
    /\ poll[k] # Null
    /\ data' = [data EXCEPT ![k] = poll[k]]
    /\ view' = [view EXCEPT ![k] = EffectOnData(data[k], poll[k][1], view[k])]
    /\ poll' = [poll EXCEPT ![k] = Null]
    /\ UNCHANGED serverVars
    /\ UNCHANGED pubVars
    /\ UNCHANGED formVars

\* ------------------------------------------------------------ upload form
\* handleFileChange (App.js lines 99-101): setFile(e.target.files[0]), which is
\* undefined (Null here) when the file dialog is cancelled
HandleFileChange(k, f) ==
    /\ fileState' = [fileState EXCEPT ![k] = f]
    /\ UNCHANGED <<senderState, uploaded, owner, settled>>
    /\ UNCHANGED serverVars
    /\ UNCHANGED pubVars
    /\ UNCHANGED clientVars

\* onChange of the name input (sender App.js line 146): setSender(value)
SetSender(k, name) ==
    /\ senderState' = [senderState EXCEPT ![k] = name]
    /\ UNCHANGED <<fileState, uploaded, owner, settled>>
    /\ UNCHANGED serverVars
    /\ UNCHANGED pubVars
    /\ UNCHANGED clientVars

\* mutant of HandleUpload: the guard tests the file only (if (!file) return)
HandleUploadNoSenderCheck(k, c) ==
    /\ fileState[k] # Null
    /\ Invoke(c, senderState[k], Null, fileState[k])
    /\ owner' = [owner EXCEPT ![c] = k]
    /\ UNCHANGED <<fileState, senderState, uploaded, settled>>

\* handleUpload up to its await (App.js lines 103-112): past the guard of line
\* 104 it sends the postMessage mutation that call c serves; when the guard
\* fails it returns with nothing changed
HandleUpload(k, c) ==
    /\ fileState[k] # Null
    /\ senderState[k] # ""
    /\ Invoke(c, senderState[k], Null, fileState[k])
    /\ owner' = [owner EXCEPT ![c] = k]
    /\ UNCHANGED <<fileState, senderState, uploaded, settled>>

\* the mutation resolved: handleUpload resumes with lines 113-114
UploadSucceeded(k, c) ==
    /\ owner[c] = k
    /\ ~settled[c]
    /\ pc[c] = "returned"
    /\ uploaded' = [uploaded EXCEPT ![k] = Selected(result[c][1]).file]
    /\ fileState' = [fileState EXCEPT ![k] = Null]
    /\ settled' = [settled EXCEPT ![c] = TRUE]
    /\ UNCHANGED <<senderState, owner>>
    /\ UNCHANGED serverVars
    /\ UNCHANGED pubVars
    /\ UNCHANGED clientVars

\* the mutation rejected: the catch of lines 115-117 logs the error
UploadFailed(k, c) ==
    /\ owner[c] = k
    /\ ~settled[c]
    /\ pc[c] = "error"
    /\ settled' = [settled EXCEPT ![c] = TRUE]
    /\ UNCHANGED <<fileState, senderState, uploaded, owner>>
    /\ UNCHANGED serverVars
    /\ UNCHANGED pubVars
    /\ UNCHANGED clientVars

\* ------------------------------------------------------------ specification
\* the backend with its subscribers: every postMessage argument, no polling
Next ==
    \/ \E c \in Calls, a \in PostArgs : PostMessage(c, a)
    \/ \E c \in Calls : UploadResolved(c)
    \/ \E c \in Calls : UploadRejected(c)
    \/ \E c \in Calls : OpenFile(c)
    \/ \E c \in Calls : WriteChunk(c)
    \/ \E c \in Calls : WriteError(c)
    \/ \E c \in Calls : ReadError(c)
    \/ \E c \in Calls : Finish(c)
    \/ \E k \in Clients : Subscribe(k)
    \/ \E k \in Clients : OnData(k)

Spec == Init /\ [][Next]_vars

\* the front-ends polling and subscribing while messages are posted
ClientPostArgs ==
    {a \in PostArgs : a.file \in {Null, Some(Upload("a.txt", <<2>>))}}

\* the front-end whose view is followed (both run the same code)
ViewClients == {"receiver"}

ClientNext ==
    \/ \E c \in Calls, a \in ClientPostArgs : PostMessage(c, a)
    \/ \E c \in Calls : UploadResolved(c)
    \/ \E c \in Calls : UploadRejected(c)
    \/ \E c \in Calls : OpenFile(c)
    \/ \E c \in Calls : WriteChunk(c)
    \/ \E c \in Calls : WriteError(c)
    \/ \E c \in Calls : ReadError(c)
    \/ \E c \in Calls : Finish(c)
    \/ \E k \in ViewClients : Subscribe(k)
    \/ \E k \in ViewClients : OnData(k)
    \/ \E k \in ViewClients : PollRequest(k)
    \/ \E k \in ViewClients : PollResponse(k)

ClientSpec == Init /\ [][ClientNext]_vars

\* a front-end's upload form against the backend: every mutation comes from
\* handleUpload
FormClients == {"sender"}
Names == {"", "Alice"}

UploadNext ==
    \/ \E k \in FormClients, f \in Files : HandleFileChange(k, f)
    \/ \E k \in FormClients, name \in Names : SetSender(k, name)
    \/ \E k \in FormClients, c \in Calls : HandleUpload(k, c)
    \/ \E c \in Calls : UploadResolved(c)
    \/ \E c \in Calls : UploadRejected(c)
    \/ \E c \in Calls : OpenFile(c)
    \/ \E c \in Calls : WriteChunk(c)
    \/ \E c \in Calls : WriteError(c)
    \/ \E c \in Calls : ReadError(c)
    \/ \E c \in Calls : Finish(c)
    \/ \E k \in FormClients, c \in Calls : UploadSucceeded(k, c)
    \/ \E k \in FormClients, c \in Calls : UploadFailed(k, c)

UploadSpec == Init /\ [][UploadNext]_vars

\* the same with polling that keeps succeeding: the pollInterval timer of
\* useQuery keeps firing and every poll request gets its response
FairClientSpec ==
    /\ ClientSpec
    /\ \A k \in ViewClients :
          WF_vars(PollRequest(k)) /\ WF_vars(PollResponse(k))

\* ------------------------------------------------------------- properties
IsPrefix(s, t) == Len(s) <= Len(t) /\ SubSeq(t, 1, Len(s)) = s

Ids(list) == {list[i].id : i \in 1..Len(list)}

Returned == {c \in Calls : pc[c] = "returned"}

Pending == {"awaitUpload", "opening", "piping"}

\* C1: the message store is append-only: every step leaves the old store a
\* prefix of the new one, the store changes only in a step in which a
\* postMessage call returns the one record appended, and a step that runs
\* Query.messages (a poll request) or subscribes leaves the store unchanged.
C1_AppendOnly ==
    [][/\ IsPrefix(messages, messages')
       /\ messages' # messages =>
             /\ Len(messages') = Len(messages) + 1
             /\ \E c \in Calls :
                   /\ pc[c] # "returned"
                   /\ pc'[c] = "returned"
                   /\ result'[c] = Some(messages'[Len(messages')])
       /\ (poll' # poll \/ subscribed' # subscribed) => messages' = messages
      ]_vars

C1_Witness ==
    /\ Len(messages) = 2
    /\ subscribed["receiver"]
    /\ subAt["receiver"] = 1
    /\ poll["receiver"] = Some(<<Selected(messages[1])>>)

\* C2: Query.messages returns exactly the records postMessage has appended so
\* far, each once, in the order they were appended (the i-th record returned is
\* the one that got the i-th identifier generated and is the result of a call
\* that returned); with no mutation so far it returns the empty list.
C2_QueryReturnsAll ==
    LET q == QueryMessages
    IN /\ Len(q) = Cardinality(Returned)
       /\ \A i \in 1..Len(q) :
             /\ q[i].id = uuidv4(i)
             /\ \E c \in Returned : result[c] = Some(q[i])
       /\ \A c \in Returned : \E i \in 1..Len(q) : result[c] = Some(q[i])
       /\ uuidCount = 0 => q = <<>>
       /\ \A k \in Clients : poll[k] # Null => IsPrefix(poll[k][1], SelectedAll(q))

C2_Witness ==
    /\ Cardinality(Returned) = 2
    /\ poll["receiver"] = Some(SelectedAll(messages))
    /\ messages[1].file # Null
    /\ messages[2].file = Null

\* C3: no two records of the store share an identifier, also when two calls
\* had the same sender, content and file.
C3_UniqueIds ==
    \A i, j \in 1..Len(messages) :
        i # j => messages[i].id # messages[j].id

C3_Witness ==
    /\ Len(messages) = 2
    /\ args[1] = args[2]
    /\ args[1].file # Null
    /\ messages[1].sender = messages[2].sender
    /\ messages[1].content = messages[2].content
    /\ messages[1].file = messages[2].file

\* C4: no replay: what a subscribed client has been pushed (handled by onData or
\* still queued) is exactly the records published since it subscribed, in
\* order; none of the records stored before it subscribed is among them, and a
\* client that has not subscribed has been pushed nothing.
C4_NoReplay ==
    \A k \in Clients :
        /\ got[k] \o inbox[k] =
              IF subscribed[k]
              THEN SubSeq(messages, subAt[k] + 1, Len(messages))
              ELSE <<>>
        /\ \A i \in 1..Len(messages) :
              (~subscribed[k] \/ i <= subAt[k]) =>
                  messages[i].id \notin Ids(got[k] \o inbox[k])

C4_Witness ==
    /\ Len(messages) = 2
    /\ subscribed["sender"] /\ subAt["sender"] = 0
    /\ got["sender"] = messages
    /\ subscribed["receiver"] /\ subAt["receiver"] = 1
    /\ got["receiver"] = <<messages[2]>>

\* C5: when the write of the uploaded file fails, the mutation ends in an error
\* in that step, with no record appended, nothing published and nothing
\* returned; a call that ended in an error stays so (no retry) and never has a
\* record in the store.
C5_WriteFailureRejects ==
    /\ [][\A c \in Calls :
             /\ (~writeErr[c] /\ writeErr'[c]) =>
                   /\ pc'[c] = "error"
                   /\ messages' = messages
                   /\ inbox' = inbox
                   /\ result'[c] = Null
             /\ pc[c] = "error" =>
                   /\ pc'[c] = "error"
                   /\ result'[c] = Null
                   /\ pos'[c] = pos[c]
         ]_vars
    /\ [](/\ Len(messages) = Cardinality(Returned)
          /\ \A c \in Calls : writeErr[c] => pc[c] = "error" /\ result[c] = Null)

C5_Witness ==
    \E c \in Calls :
        /\ writeErr[c]
        /\ pc[c] = "error"
        /\ pos[c] = 1
        /\ \E k \in Clients : subscribed[k] /\ subAt[k] = 0 /\ got[k] = messages
        /\ \E b \in Calls : b # c /\ pc[b] = "returned"

\* C6 (as claimed): every postMessage call carrying a file completes: while it
\* is pending, some step of it is still possible.
C6_EveryCallCompletes ==
    \A c \in Calls :
        pc[c] \in Pending =>
            ENABLED (\/ UploadResolved(c) \/ UploadRejected(c) \/ OpenFile(c)
                     \/ WriteChunk(c) \/ WriteError(c) \/ Finish(c))

\* C7 (as claimed): for every record with a file descriptor, the bytes served
\* at its url are the bytes of the input stream of the upload that created it.
C7_ServedBytesAreUploadBytes ==
    \A c \in Returned :
        args[c].file # Null =>
            /\ result[c][1].file # Null
            /\ Serve(result[c][1].file[1].url) =
                  Some(args[c].file[1].createReadStream)

\* C8: a call with no file writes no file and returns, in the step that calls
\* it, a record with a non-empty identifier, the given sender, the given
\* content and file = null, which is the record appended to the store.
C8_NoFilePost ==
    [][\A c \in Calls :
          (pc[c] = "idle" /\ pc'[c] # "idle" /\ args'[c].file = Null) =>
              /\ disk' = disk
              /\ pos' = pos
              /\ pc'[c] = "returned"
              /\ result'[c] # Null
              /\ Len(result'[c][1].id) > 0
              /\ result'[c][1].sender = args'[c].sender
              /\ result'[c][1].content = args'[c].content
              /\ result'[c][1].file = Null
              /\ messages' = Append(messages, result'[c][1])
      ]_vars

C8_Witness ==
    \E c \in Calls :
        /\ pc[c] = "returned"
        /\ args[c] = [sender |-> "Alice", content |-> Some("hi"), file |-> Null]
        /\ result[c] = Some(messages[Len(messages)])
        /\ result[c][1].sender = "Alice"
        /\ result[c][1].content = Some("hi")
        /\ result[c][1].file = Null
        /\ disk = [f \in Filenames |-> Null]

\* C9 (as claimed): every record of the store has content and/or a file.
C9_ContentOrFile ==
    \A i \in 1..Len(messages) :
        messages[i].content # Null \/ messages[i].file # Null

\* C10: a client's local messages list never holds two records with the same
\* id; handling a pushed record whose id is in the list leaves the list
\* unchanged, and otherwise appends the record at the end.
C10_ViewDedup ==
    /\ [](\A k \in Clients :
             \A i, j \in 1..Len(view[k]) :
                 i # j => view[k][i].id # view[k][j].id)
    /\ [][\A k \in Clients :
             (inbox[k] # <<>> /\ got'[k] = Append(got[k], Head(inbox[k]))) =>
                 IF Head(inbox[k]).id \in Ids(view[k])
                 THEN view'[k] = view[k]
                 ELSE view'[k] = Append(view[k], Selected(Head(inbox[k])))
         ]_vars

C10_Witness ==
    \E k \in Clients :
        /\ Len(got[k]) = 2
        /\ data[k] = Some(<<Selected(got[k][1])>>)
        /\ view[k] = SelectedAll(got[k])

\* C11: postMessage keeps a fixed order: the record of a call with a file is
\* appended only in a step taken after its write stream has written every byte
\* of the upload without error, the record is in the store in the step that
\* publishes it, and every record a subscriber has been pushed is in the store
\* and in what Query.messages returns.
C11_StepOrder ==
    /\ [][\A c \in Calls :
             result'[c] # result[c] =>
                 /\ messages' = Append(messages, result'[c][1])
                 /\ \A k \in Clients :
                       inbox'[k] # inbox[k] =>
                           inbox'[k] = Append(inbox[k], messages'[Len(messages')])
                 /\ args[c].file # Null =>
                       /\ pc[c] = "piping"
                       /\ pos[c] = Len(args[c].file[1].createReadStream)
                       /\ ~readErr[c] /\ ~writeErr[c]
         ]_vars
    /\ [](\A k \in Clients :
             \A i \in 1..Len(got[k] \o inbox[k]) :
                 \E j \in 1..Len(QueryMessages) :
                     QueryMessages[j] = (got[k] \o inbox[k])[i])
    /\ [](\A c \in Returned :
             args[c].file # Null =>
                 pos[c] = Len(args[c].file[1].createReadStream))

C11_Witness ==
    \E c \in Returned :
        /\ args[c].file = Some(Upload("a.txt", <<1, 1>>))
        /\ disk["a.txt"] = Some(<<1, 1>>)
        /\ got["receiver"] = <<result[c][1]>>
        /\ messages = <<result[c][1]>>

Occurrences(list, r) == Cardinality({i \in 1..Len(list) : list[i] = r})

\* C12: concurrent mutations lose no append: the store holds one record per
\* call that has passed its append step, every such call's record is in the
\* store exactly once, and every client subscribed when it was published has
\* been pushed it exactly once.
C12_NoLostAppends ==
    /\ Len(messages) = Cardinality(Returned)
    /\ uuidCount = Len(messages)
    /\ \A c \in Returned :
          /\ Occurrences(messages, result[c][1]) = 1
          /\ \A k \in Clients :
                Occurrences(got[k] \o inbox[k], result[c][1]) =
                    IF /\ subscribed[k]
                       /\ \E i \in (subAt[k] + 1)..Len(messages) :
                             messages[i] = result[c][1]
                    THEN 1
                    ELSE 0

\* two overlapping uploads of different durations, the later call finishing first
C12_Witness ==
    /\ {1, 2} \subseteq Returned
    /\ args[1].file = Some(Upload("a.txt", <<1, 1>>))
    /\ args[2].file = Some(Upload("b.txt", <<2>>))
    /\ messages = <<result[2][1], result[1][1]>>
    /\ subscribed["sender"] /\ subAt["sender"] = 0
    /\ Len(got["sender"]) = 2

StoreIndex(r) == CHOOSE i \in 1..Len(messages) : messages[i] = r

\* C13: publish order equals store order: the step that appends a record is the
\* step that queues it, last, for every subscribed client, so the records a
\* subscriber has been pushed are in the same relative order as in the store.
C13_PublishOrderIsStoreOrder ==
    /\ [][messages' # messages =>
             \A k \in Clients :
                 subscribed[k] =>
                     /\ inbox'[k] = Append(inbox[k], messages'[Len(messages')])
                     /\ got'[k] = got[k]
         ]_vars
    /\ [](\A k \in Clients :
             LET pushed == got[k] \o inbox[k]
             IN \A i, j \in 1..Len(pushed) :
                    i < j => StoreIndex(pushed[i]) < StoreIndex(pushed[j]))

\* a subscriber is pushed the records of two overlapping calls, the later call
\* first, with the first record still queued when the second is published
C13_Witness ==
    /\ {1, 2} \subseteq Returned
    /\ args[1].file # Null
    /\ messages = <<result[2][1], result[1][1]>>
    /\ subscribed["receiver"] /\ subAt["receiver"] = 0
    /\ got["receiver"] = <<>>
    /\ inbox["receiver"] = messages

\* a step in which client k applies the response of its poll
PollApplied(k) == poll[k] # Null /\ poll'[k] = Null

\* C14 (as claimed): immediately after a poll result is applied, the client's
\* local messages list equals exactly the list returned by that poll.
C14_PollOverwrites ==
    [][\A k \in Clients : PollApplied(k) => view'[k] = poll[k][1]]_vars

\* C14 (amended): immediately after a poll result that differs from the result
\* useQuery held before is applied, the client's local messages list equals
\* exactly the list returned by that poll, whatever the subscription appended.
C14_ChangedPollOverwrites ==
    [][\A k \in Clients :
          (PollApplied(k) /\ poll[k] # data[k]) =>
              /\ view'[k] = poll[k][1]
              /\ data'[k] = poll[k]
      ]_vars

\* a record the subscription appended has been overwritten by an older result
C14_Witness ==
    \E k \in Clients :
        /\ Len(got[k]) = 1
        /\ Len(messages) = 1
        /\ data[k] = Some(<<>>)
        /\ view[k] = <<>>
        /\ poll[k] = Null

InList(list, r) == \E i \in 1..Len(list) : list[i] = r

\* the position in the store of the record a client displays as r
StoreIndexOfId(r) == CHOOSE i \in 1..Len(messages) : messages[i].id = r.id

\* C15 (as claimed): once a record is in a client's local messages list it is
\* in the list in every later state.
C15_ViewMonotone ==
    [][\A k \in Clients :
          \A i \in 1..Len(view[k]) : InList(view'[k], view[k][i])
      ]_vars

\* C15 (amended): a record in a client's local messages list stays in it over
\* every step but one: the application of a poll response that overwrites the
\* view and was computed by the server before the record was appended to the
\* store; no subscription event removes a record.
C15_ViewMonotoneButStalePoll ==
    [][\A k \in Clients :
          \A i \in 1..Len(view[k]) :
              \/ InList(view'[k], view[k][i])
              \/ /\ PollApplied(k)
                 /\ view'[k] = poll[k][1]
                 /\ Len(poll[k][1]) < StoreIndexOfId(view[k][i])
      ]_vars

\* both records were pushed and displayed, then a poll response computed
\* before the second was appended removed the second
C15_Witness ==
    \E k \in Clients :
        /\ Len(messages) = 2
        /\ got[k] = messages
        /\ data[k] = Some(<<Selected(messages[1])>>)
        /\ view[k] = <<Selected(messages[1])>>
        /\ poll[k] = Null

\* C16: each client's local messages list is a subsequence of the store: every
\* record displayed is a stored record (as the client selects it) and the
\* records displayed are in the order the store holds them.
C16_ViewIsSubsequenceOfStore ==
    \A k \in Clients :
        /\ \A i \in 1..Len(view[k]) :
              \E j \in 1..Len(messages) : view[k][i] = Selected(messages[j])
        /\ \A i, j \in 1..Len(view[k]) :
              i < j => StoreIndexOfId(view[k][i]) < StoreIndexOfId(view[k][j])

\* the list skips a stored record (the client subscribed after the first record
\* and its only poll response predates both)
C16_Witness ==
    \E k \in Clients :
        /\ Len(messages) = 2
        /\ view[k] = <<Selected(messages[2])>>
        /\ data[k] = Some(<<>>)
        /\ messages[2].file # Null

\* C17: views converge: with polling that keeps succeeding, once the mutations
\* have stopped the local messages list of every polling client eventually
\* equals the full store (as the query selects it) and stays equal to it.
C17_ViewsConverge ==
    \A k \in ViewClients : <>[](view[k] = SelectedAll(messages))

\* a client that never subscribed, so missed every push, displays the full store
C17_Witness ==
    \E k \in ViewClients :
        /\ ~subscribed[k]
        /\ Len(messages) = 2
        /\ \A c \in Calls : pc[c] = "returned"
        /\ view[k] = SelectedAll(messages)

\* C18: handleUpload is guarded and failure-safe: a mutation is sent only by a
\* client with a file selected and a non-empty sender name, and carries them
\* with content null; when the mutation fails, resuming handleUpload leaves
\* uploaded and file as they are; when it succeeds, uploaded becomes the file
\* descriptor of the returned record and file is cleared.
C18_HandleUploadGuarded ==
    /\ [][\A c \in Calls :
             /\ (pc[c] = "idle" /\ pc'[c] # "idle") =>
                   /\ owner'[c] \in Clients
                   /\ fileState[owner'[c]] # Null
                   /\ senderState[owner'[c]] # ""
                   /\ args'[c] = [sender |-> senderState[owner'[c]],
                                  content |-> Null,
                                  file |-> fileState[owner'[c]]]
                   /\ fileState' = fileState /\ uploaded' = uploaded
             /\ (~settled[c] /\ settled'[c]) =>
                   IF pc[c] = "returned"
                   THEN /\ uploaded'[owner[c]] = Selected(result[c][1]).file
                        /\ uploaded'[owner[c]] # Null
                        /\ fileState'[owner[c]] = Null
                   ELSE /\ pc[c] = "error"
                        /\ uploaded' = uploaded
                        /\ fileState' = fileState
         ]_vars
    /\ [](\A c \in Calls :
             pc[c] # "idle" =>
                 /\ owner[c] \in Clients
                 /\ args[c].file # Null
                 /\ args[c].sender # "")

\* one upload failed and left the selected file and uploaded alone, a later
\* one succeeded, set uploaded and cleared the selection
C18_Witness ==
    \E b, c \in Calls, k \in Clients :
        /\ owner[b] = k /\ settled[b] /\ pc[b] = "error"
        /\ owner[c] = k /\ settled[c] /\ pc[c] = "returned"
        /\ uploaded[k] = Selected(result[c][1]).file
        /\ fileState[k] = Null

====
